---- MODULE Spec2Model ----
(***************************************************************************)
(* Star-Attention: the two programs of the repository as state machines.   *)
(*                                                                         *)
(*   ruler/data/synthetic/common_words_extraction.py  (GenSpec)            *)
(*       calibration of num_words against the token budget, then the       *)
(*       per-sample shrink-and-retry loop of sys_word_pair_random.         *)
(*   run_babilong.py                                   (OrchSpec)          *)
(*       start-up validation, the sequence-length / task sweep and         *)
(*       submit_job (record the command, then os.system).                  *)
(*                                                                         *)
(* A text is kept as the pieces the code concatenates, never as a flat     *)
(* string; a tokenizer is a length function over those pieces.             *)
(***************************************************************************)
EXTENDS Integers, Sequences, FiniteSets, TLC

VARIABLES
    \* ---- common_words_extraction.py ----
    args,          \* the parsed command line (argparse namespace)
    incremental,   \* sys_word_pair_random's parameter
    TOKENIZER,     \* the selected tokenizer (its length function)
    rng,           \* state of the module-level `random` generator
    gen_pc,        \* control point inside sys_word_pair_random
    num_words, total_tokens, index, used_words, write_jsons,
    words,         \* the module-level word pool (lines 74-79)
    calib_log,     \* history: the calibration trials, <<num_words, total_tokens>>
    shrink_log,    \* history: the shrink retries, <<index, used_words>>
    run,           \* which run of the generator this is (0: none)
    first_run,     \* <<what the first run returned and logged>>, or <<>>
    \* ---- run_babilong.py ----
    cfg,           \* the parsed command line of the orchestrator
    exists,        \* os.path.exists: model path, pre-generated data files
    orch_pc,       \* control point in __main__ / main / submit_job
    seq_i, task_j, \* positions in the two for loops
    inference_executor, nproc_per_node_seq_len, task_data_file,
    call,          \* <<the submit_job call in progress>>, or <<>>
    files,         \* the command files written so far: <<path, content>> pairs
    running,       \* <<the child process os.system is waiting for>>, or <<>>
    dispatched,    \* history: every command handed to os.system in this pass
    pass,          \* which pass of the orchestrator this is (0: none)
    first_pass     \* <<the jobs the first pass started>>, or <<>>

gen_vars == <<args, incremental, TOKENIZER, rng, gen_pc, num_words, total_tokens,
              index, used_words, write_jsons, words, calib_log, shrink_log, run,
              first_run>>
orch_vars == <<cfg, exists, orch_pc, seq_i, task_j, inference_executor,
               nproc_per_node_seq_len, task_data_file, call, files, running, dispatched,
               pass, first_pass>>
vars == <<gen_vars, orch_vars>>

None == "None"

(***************************************************************************)
(* Bounds of the model.                                                    *)
(***************************************************************************)
PoolSize == 45        \* len(words): the real pool has thousands of words
MaxSamples == 2       \* --num_samples ranges over 1..MaxSamples
RngMod == 16          \* number of states of the modelled random generator
MaxSeqLengths == 2    \* --seq_lengths holds 1..MaxSeqLengths values
MaxTasks == 2         \* --tasks holds 1..MaxTasks values

(***************************************************************************)
(* Program constants of common_words_extraction.py.                        *)
(***************************************************************************)
RegimeThreshold == 4096
SmallExampleWords == 20
SmallExampleCommonRepeats == 3
SmallExampleUncommonRepeats == 1
SmallCommonRepeats == 6
SmallUncommonRepeats == 1
LargeExampleWords == 40
LargeExampleCommonRepeats == 10
LargeExampleUncommonRepeats == 3
DefaultIncremental == 10

(***************************************************************************)
(* The `random` module.  random.seed(args.random_seed) fixes the state;    *)
(* every draw is a function of the state and advances it.                  *)
(***************************************************************************)
RngSeed(seed) == seed % RngMod

RngNext(r) == (5 * r + 3) % RngMod

\* random.sample(words, n): n distinct words, in an order fixed by the state.
\* ValueError when n exceeds the pool (callers below never ask for that).
Sample(n, r) == [i \in 1..n |-> words[((7 * r + i - 1) % Len(words)) + 1]]

\* random.Random(args.random_seed).shuffle(word_list): a permutation that
\* depends on the seed and the length only.
Shuffle(s, seed) ==
    IF Len(s) = 0 THEN s
    ELSE [i \in 1..Len(s) |-> s[((i - 1 + seed) % Len(s)) + 1]]

\* nouns + adjs + verbs as a set (lines 74-77): the corpus of distinct words.
Corpus == 1..PoolSize

\* The hash seeds a Python process may start with (PYTHONHASHSEED).
HashSeeds == {0, 1}

\* list(set(words)): the iteration order of a set of strings depends on the
\* hash seed of the process.
SetIteration(S, h) ==
    [i \in 1..Cardinality(S) |-> ((i - 1 + 13 * h) % Cardinality(S)) + 1]

\* The pool left in the set's iteration order.
Unsorted(s) == s

\* sorted(...)
Sorted(s) == SortSeq(s, LAMBDA a, b : a < b)

\* Lines 74-79: the pool is sorted, then shuffled by the seed.
LoadWords(h, seed) == Shuffle(Sorted(SetIteration(Corpus, h)), seed)

\* Python's list * int.
Repeat(s, k) ==
    IF k <= 0 \/ Len(s) = 0 THEN <<>>
    ELSE [i \in 1..(k * Len(s)) |-> s[((i - 1) % Len(s)) + 1]]

Min(a, b) == IF a <= b THEN a ELSE b

\* ' '.join(f"{i + 1}. {word}" ...): the numbered items of a rendered list.
Enumerate(s) == [i \in 1..Len(s) |-> <<i, s[i]>>]

\* get_example returning the head of the shuffled list as the common words.
get_example_shuffled_head(n, common_repeats, uncommon_repeats, common_nums, r, seed) ==
    LET word_list_full == Sample(n, r)
        common == SubSeq(word_list_full, 1, Min(common_nums, n))
        uncommon == SubSeq(word_list_full, common_nums + 1, n)
        word_list == Shuffle(Repeat(common, common_repeats)
                             \o Repeat(uncommon, uncommon_repeats), seed)
    IN  [context |-> Enumerate(word_list),
         common |-> SubSeq(word_list, 1, Min(common_nums, n))]

\* get_example: returns (context, common); the context is kept as its items.
get_example(n, common_repeats, uncommon_repeats, common_nums, r, seed) ==
    LET word_list_full == Sample(n, r)
        common == SubSeq(word_list_full, 1, Min(common_nums, n))
        uncommon == SubSeq(word_list_full, common_nums + 1, n)
        word_list == Shuffle(Repeat(common, common_repeats)
                             \o Repeat(uncommon, uncommon_repeats), seed)
    IN  [context |-> Enumerate(word_list), common |-> common]

\* generate_input_output: two get_example calls on the shared generator, the
\* worked example first.  The returned context is
\*   template(example) + query + answer_example + "\n" + template(context).
generate_input_output(n, a, r) ==
    LET small == a.max_seq_length < RegimeThreshold
        ex == IF small
              THEN get_example(SmallExampleWords, SmallExampleCommonRepeats,
                               SmallExampleUncommonRepeats, a.num_cw, r, a.random_seed)
              ELSE get_example(LargeExampleWords, LargeExampleCommonRepeats,
                               LargeExampleUncommonRepeats, a.num_cw, r, a.random_seed)
        r1 == RngNext(r)
        body == IF small
                THEN get_example(n, SmallCommonRepeats, SmallUncommonRepeats,
                                 a.num_cw, r1, a.random_seed)
                ELSE get_example(n, a.freq_cw, a.freq_ucw, a.num_cw, r1, a.random_seed)
    IN  [context |-> [example |-> ex.context,
                      example_answer |-> Enumerate(ex.common),
                      body |-> body.context,
                      template |-> a.context_template,
                      example_query |-> a.query_template,
                      newline |-> "\n"],
         query |-> a.query_template,
         answer |-> body.common,
         rng |-> IF n = 0 THEN r1 ELSE RngNext(r1)]

(***************************************************************************)
(* TOKENIZER.text_to_tokens, as a length.  A tokenizer prices a numbered   *)
(* item (the "i." prefix plus the word), the template text, and the line   *)
(* break or blank that separates the pieces.                               *)
(***************************************************************************)
\* A rendered list: every item pays the prefix and its word.
ListTokens(tk, items) ==
      (tk.idx + 1) * Len(items)
    + tk.heavy * Cardinality({k \in 1..Len(items) : items[k][2] % 3 = 0})

\* The line breaks of a context: the one generate_input_output inserts and
\* those of the two template instances.
LineBreaks(c) == 1 + 2 * c.template.nl

ContextTokens(tk, c) ==
      c.template.tok + ListTokens(tk, c.example) + c.example_query.tok
    + ListTokens(tk, c.example_answer)
    + LineBreaks(c) * (IF c.newline = "\n" THEN tk.nl ELSE tk.sp)
    + c.template.tok + ListTokens(tk, c.body)

\* The measure of line 150 with the query left out.
PromptTokensWithoutQuery(tk, c, q) == ContextTokens(tk, c)

\* len(TOKENIZER.text_to_tokens(context + query))
PromptTokens(tk, c, q) == ContextTokens(tk, c) + q.tok

\* len(TOKENIZER.text_to_tokens(context + query + ' ' + rendered answer))
PromptAnswerTokens(tk, c, q, answer) ==
    PromptTokens(tk, c, q) + ListTokens(tk, Enumerate(answer))

\* ' '.join(text.replace('\n', ' ').replace('\t', ' ').strip().split())
RemoveNewlineTab(c) == [c EXCEPT !.newline = " "]

(***************************************************************************)
(* sys_word_pair_random as a state machine.                                *)
(***************************************************************************)
MaxSeqLengthChoices == (440..500) \cup {560, 600, RegimeThreshold}
TokensToGenerate == {30, 2300}
Seeds == {0, 42}
Increments == {DefaultIncremental, 15}
Tokenizers ==
    { [idx |-> 2, heavy |-> 1, nl |-> 1, sp |-> 0],    \* "\n" is a token, " " joins the next word
      [idx |-> 2, heavy |-> 1, nl |-> 0, sp |-> 1] }   \* ".\n" is one token, ". 1" is three
ContextTemplates == { [tok |-> 4, nl |-> 2] }
QueryTemplates == { [tok |-> 3, nl |-> 0] }

GenIdle ==
    /\ args = None /\ incremental = 0 /\ TOKENIZER = None /\ rng = 0
    /\ gen_pc = "idle" /\ num_words = 0 /\ total_tokens = 0 /\ index = 0
    /\ used_words = 0 /\ write_jsons = <<>> /\ calib_log = <<>>
    /\ words = <<>> /\ shrink_log = <<>> /\ run = 0 /\ first_run = <<>>

OrchIdle ==
    /\ cfg = None /\ exists = {} /\ orch_pc = "idle" /\ seq_i = 0 /\ task_j = 0
    /\ inference_executor = <<>> /\ nproc_per_node_seq_len = 0
    /\ task_data_file = "" /\ call = <<>>
    /\ files = {} /\ running = <<>> /\ dispatched = <<>>
    /\ pass = 0 /\ first_pass = <<>>

\* Module start-up (lines 68-79) and the entry of sys_word_pair_random
\* (lines 115-122).
GenInit ==
    /\ args \in [max_seq_length : MaxSeqLengthChoices,
                 tokens_to_generate : TokensToGenerate,
                 num_samples : 1..MaxSamples,
                 random_seed : Seeds,
                 freq_cw : {30}, freq_ucw : {3}, num_cw : {10},
                 remove_newline_tab : BOOLEAN,
                 context_template : ContextTemplates,
                 query_template : QueryTemplates]
    /\ incremental \in Increments
    /\ TOKENIZER \in Tokenizers
    /\ rng = RngSeed(args.random_seed)
    /\ gen_pc = "calibrate"
    /\ num_words = incremental
    /\ total_tokens = 0
    /\ index = 0
    /\ used_words = 0
    /\ write_jsons = <<>>
    /\ calib_log = <<>>
    /\ \E h \in HashSeeds : words = LoadWords(h, args.random_seed)
    /\ shrink_log = <<>>
    /\ run = 1
    /\ first_run = <<>>
    /\ OrchIdle

\* One iteration of the calibration loop (lines 123-140).
CalibrationTrial ==
    /\ gen_pc = "calibrate"
    /\ total_tokens + args.tokens_to_generate < args.max_seq_length
    /\ LET g == generate_input_output(num_words, args, rng)
           t == PromptAnswerTokens(TOKENIZER, g.context, g.query, g.answer)
       IN  /\ total_tokens' = t
           /\ rng' = g.rng
           /\ calib_log' = Append(calib_log, <<num_words, t>>)
           /\ IF t + args.tokens_to_generate > args.max_seq_length
              THEN /\ num_words' = num_words - incremental
                   /\ gen_pc' = "samples"
              ELSE IF num_words + incremental > Len(words)
              THEN /\ num_words' = Len(words)
                   /\ gen_pc' = "samples"
              ELSE /\ num_words' = num_words + incremental
                   /\ gen_pc' = "calibrate"
    /\ UNCHANGED <<args, incremental, TOKENIZER, index, used_words, write_jsons,
                   words, shrink_log, run, first_run>>
    /\ UNCHANGED orch_vars

\* The loop condition of line 123 fails: fall through to line 142.
CalibrationExit ==
    /\ gen_pc = "calibrate"
    /\ ~(total_tokens + args.tokens_to_generate < args.max_seq_length)
    /\ gen_pc' = "samples"
    /\ UNCHANGED <<args, incremental, TOKENIZER, rng, num_words, total_tokens,
                   index, used_words, write_jsons, calib_log, words, shrink_log,
                   run, first_run>>
    /\ UNCHANGED orch_vars

\* for index in range(num_samples): used_words = num_words (lines 145-146).
SampleStart ==
    /\ gen_pc = "samples"
    /\ index < args.num_samples
    /\ used_words' = num_words
    /\ gen_pc' = "attempt"
    /\ UNCHANGED <<args, incremental, TOKENIZER, rng, num_words, total_tokens,
                   index, write_jsons, calib_log, words, shrink_log, run, first_run>>
    /\ UNCHANGED orch_vars

\* The record of lines 157-167.
formatted_output(i, g, length) ==
    [index |-> i,
     input_context |-> IF args.remove_newline_tab
                       THEN RemoveNewlineTab(g.context) ELSE g.context,
     input_query |-> g.query,
     outputs |-> g.answer,
     length |-> length]

\* One iteration of `while True` (lines 147-155); on success the rest of the
\* for body (lines 157-168).  The bare except catches the failed assertion.
SampleAttempt ==
    /\ gen_pc = "attempt"
    /\ LET g == generate_input_output(used_words, args, rng)
           length == PromptTokens(TOKENIZER, g.context, g.query)
                     + args.tokens_to_generate
       IN  /\ rng' = g.rng
           /\ IF length <= args.max_seq_length
              THEN /\ write_jsons' = Append(write_jsons, formatted_output(index, g, length))
                   /\ index' = index + 1
                   /\ gen_pc' = "samples"
                   /\ UNCHANGED <<used_words, shrink_log>>
              ELSE /\ used_words' = IF used_words > incremental
                                    THEN used_words - incremental ELSE used_words
                   /\ shrink_log' = IF used_words > incremental
                                    THEN Append(shrink_log, <<index, used_words'>>)
                                    ELSE shrink_log
                   /\ UNCHANGED <<write_jsons, index, gen_pc>>
    /\ UNCHANGED <<args, incremental, TOKENIZER, num_words, total_tokens, calib_log,
                   words, run, first_run>>
    /\ UNCHANGED orch_vars

\* return write_jsons (line 170); main writes the file (line 181).
GenReturn ==
    /\ gen_pc = "samples"
    /\ index = args.num_samples
    /\ gen_pc' = "done"
    /\ UNCHANGED <<args, incremental, TOKENIZER, rng, num_words, total_tokens,
                   index, used_words, write_jsons, calib_log, words, shrink_log,
                   run, first_run>>
    /\ UNCHANGED orch_vars

GenNext ==
    \/ CalibrationTrial
    \/ CalibrationExit
    \/ SampleStart
    \/ SampleAttempt
    \/ GenReturn

GenSpec == GenInit /\ [][GenNext]_vars

\* What a run returns (write_jsons) and the trials and retries it made.
RunOutcome ==
    [write_jsons |-> write_jsons, calib_log |-> calib_log, shrink_log |-> shrink_log]

\* A second, independent run of the program with the same command line,
\* corpus and tokenizer: a new process (with a hash seed of its own) executes
\* lines 68-79 and enters sys_word_pair_random again.
SecondRun ==
    /\ gen_pc = "done"
    /\ run = 1
    /\ first_run' = <<RunOutcome>>
    /\ run' = 2
    /\ \E h \in HashSeeds : words' = LoadWords(h, args.random_seed)
    /\ rng' = RngSeed(args.random_seed)
    /\ gen_pc' = "calibrate"
    /\ num_words' = incremental
    /\ total_tokens' = 0
    /\ index' = 0
    /\ used_words' = 0
    /\ write_jsons' = <<>>
    /\ calib_log' = <<>>
    /\ shrink_log' = <<>>
    /\ UNCHANGED <<args, incremental, TOKENIZER>>
    /\ UNCHANGED orch_vars

TwoRunsNext == GenNext \/ SecondRun

TwoRunsSpec == GenInit /\ [][TwoRunsNext]_vars

(***************************************************************************)
(* Claims about sys_word_pair_random (checked under GenSpec).              *)
(***************************************************************************)
Budget == args.max_seq_length - args.tokens_to_generate

Calibrated == gen_pc \in {"samples", "attempt", "done"}

\* A calibration trial at k items was measured and was within the budget.
TrialFits(k) ==
    \E t \in 1..Len(calib_log) : calib_log[t][1] = k /\ calib_log[t][2] <= Budget

\* A calibration trial at k items was measured and exceeded the budget.
TrialExceeds(k) ==
    \E t \in 1..Len(calib_log) : calib_log[t][1] = k /\ calib_log[t][2] > Budget

\* C1: every record returned fits the budget: the tokenized length of the
\* record's own input_context + input_query is at most
\* max_seq_length - tokens_to_generate.
C1_RecordFitsBudget ==
    gen_pc # "idle" =>
        \A i \in 1..Len(write_jsons) :
            PromptTokens(TOKENIZER, write_jsons[i].input_context,
                         write_jsons[i].input_query) <= Budget

\* The first calibration trial, at `incremental` items, was within the budget.
FirstTrialFits == Len(calib_log) >= 1 /\ calib_log[1][2] <= Budget

\* C2: boundary-tightness: the item count the calibration loop selects was
\* measured within the budget, and one increment more was measured over it
\* (unless the count is the size of the word pool).  Stated for the runs in
\* which at least one increment fits.
C2_CalibrationTight ==
    (gen_pc # "idle" /\ Calibrated /\ FirstTrialFits) =>
        /\ TrialFits(num_words)
        /\ (num_words = PoolSize \/ TrialExceeds(num_words + incremental))

\* C9: a sample that is over budget is never retried at the same item count:
\* every retry of the shrink loop uses fewer items than the attempt before.
C9_NoRetryAtSameCount ==
    [][(gen_pc = "attempt" /\ gen_pc' = "attempt") => used_words' < used_words]_vars

\* C10: when the first calibration trial (at `incremental` items) is already
\* over budget, no sample is attempted and no record is produced.
C10_FirstTrialOverAborts ==
    (gen_pc # "idle" /\ Len(calib_log) >= 1 /\ calib_log[1][2] > Budget) =>
        (gen_pc \notin {"attempt", "done"} /\ write_jsons = <<>>)

\* The last record appended to write_jsons by the step.
NewRecord == write_jsons'[Len(write_jsons')]

\* The step appends a record.
RecordAppended == gen_pc = "attempt" /\ Len(write_jsons') = Len(write_jsons) + 1

\* How often word w occurs in a rendered list.
Occurrences(items, w) == Cardinality({k \in 1..Len(items) : items[k][2] = w})

\* The words random.sample draws for the word list of the attempt made in the
\* current state: the second draw of generate_input_output(used_words).
AttemptSample == Sample(used_words, RngNext(rng))

\* The common-word frequency of the regime of the run.
CommonFrequency ==
    IF args.max_seq_length < RegimeThreshold THEN SmallCommonRepeats ELSE args.freq_cw

IsPrefix(s, t) == Len(s) <= Len(t) /\ s = SubSeq(t, 1, Len(s))

\* C12: determinism: a second run with the same seed, parameters, corpus and
\* tokenizer makes the calibration trials and shrink retries of the first run
\* in the same order and, when it returns, has produced the same records.
C12_Deterministic ==
    run = 2 =>
        /\ IsPrefix(calib_log, first_run[1].calib_log)
        /\ IsPrefix(shrink_log, first_run[1].shrink_log)
        /\ IsPrefix(write_jsons, first_run[1].write_jsons)
        /\ gen_pc = "done" => RunOutcome = first_run[1]

\* The second run has returned, after a shrink retry, with its records.
C12_Witness ==
    /\ run = 2 /\ gen_pc = "done"
    /\ Len(write_jsons) = MaxSamples
    /\ shrink_log # <<>>

(***************************************************************************)
(* run_babilong.py.  Strings are TLC strings; a command line is the        *)
(* sequence of the pieces its f-strings concatenate, blanks included.      *)
(***************************************************************************)
SPLIT_NAMES == {"16k", "32k", "64k", "128k"}
PathStep == 1024

BASE_DIR == "BASE_DIR"

\* os.path.join
PathJoin(a, b) == a \o "/" \o b

\* f'{seq_length // 1024}k'
SeqLengthRepr(seq_length) == ToString(seq_length \div PathStep) \o "k"

\* 'star' in attn_type
IsStar(attn_type) == attn_type \in {"star"}

\* Python's // on integers: floor division (b # 0).
FloorDiv(a, b) == IF b > 0 THEN a \div b ELSE (0 - a) \div (0 - b)

\* An optional value: <<>> is None, <<v>> is v.
IsNone(o) == o = <<>>
Value(o) == o[1]

\* The start-up validation without the test that the model path exists.
StartupValidNoModelPath(c, fs) ==
    /\ \A k \in 1..Len(c.seq_lengths) : SeqLengthRepr(c.seq_lengths[k]) \in SPLIT_NAMES
    /\ (IsStar(c.attn_type) => c.block_size > 0)
    /\ (c.attn_type # "dense" =>
            /\ ~IsNone(c.nproc_per_node) /\ Value(c.nproc_per_node) > 0
            /\ c.num_nodes > 0)

\* The assertions and the existence test of lines 177-192.
StartupValid(c, fs) ==
    /\ \A k \in 1..Len(c.seq_lengths) : SeqLengthRepr(c.seq_lengths[k]) \in SPLIT_NAMES
    /\ (IsStar(c.attn_type) => c.block_size > 0)
    /\ (c.attn_type # "dense" =>
            /\ ~IsNone(c.nproc_per_node) /\ Value(c.nproc_per_node) > 0
            /\ c.num_nodes > 0)
    /\ c.model_path \in fs

\* The assertion of lines 100-103.
MainAssertion(c) == IsStar(c.attn_type) => c.block_size >= c.anchor_block_size

\* Lines 195-203: the run's output directory.
SizeRepr(n) == IF n < PathStep THEN ToString(n) ELSE ToString(n \div PathStep) \o "k"

OutputDir(c) ==
    LET anchor_block_size == IF c.anchor_block_size > 0
                             THEN c.anchor_block_size ELSE c.block_size
        model_name_suffix ==
            IF IsStar(c.attn_type)
            THEN "_b" \o SizeRepr(c.block_size) \o "a" \o SizeRepr(anchor_block_size)
            ELSE ""
    IN  PathJoin(c.output_dir, c.model_name \o "_" \o c.attn_type \o model_name_suffix)

\* Lines 105-107.
PregenDataDir(c) ==
    IF IsNone(c.pregen_data_dir) THEN <<>>
    ELSE <<PathJoin(PathJoin(BASE_DIR, "dataset"), Value(c.pregen_data_dir))>>

\* The skip test with the anchor block left out of the sum.
SkipSeqLengthNoAnchor(c, seq_length) ==
    IsStar(c.attn_type) /\ c.block_size > seq_length

\* The skip test of line 115.
SkipSeqLength(c, seq_length) ==
    IsStar(c.attn_type) /\ c.block_size + c.anchor_block_size > seq_length

\* Line 125.
NprocPerNodeSeqLen(c, seq_length) ==
    Min(Value(c.nproc_per_node), FloorDiv(seq_length, c.block_size))

\* Lines 124-128.
InferenceExecutor(c, nproc) ==
    IF c.attn_type # "dense"
    THEN <<"torchrun", " ", "--nnodes=", ToString(c.num_nodes), " ",
           "--nproc_per_node=", ToString(nproc)>>
    ELSE <<"python">>

\* Lines 130-132 and 138.
ResultsDir(c, seq_length) == PathJoin(c.output_dir, SeqLengthRepr(seq_length))
LogDir(c, seq_length) == PathJoin(ResultsDir(c, seq_length), "logs")
DataDir(c, seq_length) == PathJoin(ResultsDir(c, seq_length), "data")
TaskLogDir(c, seq_length, task) == PathJoin(LogDir(c, seq_length), task)

TaskFileName(seq_length, task) == task \o "_" \o SeqLengthRepr(seq_length) \o ".jsonl"

\* Lines 141-145: <<path>> when a pre-generated directory is configured.
PregenTaskDataFile(c, seq_length, task) ==
    IF IsNone(PregenDataDir(c)) THEN <<>>
    ELSE <<PathJoin(PathJoin(Value(PregenDataDir(c)), SeqLengthRepr(seq_length)),
                    TaskFileName(seq_length, task))>>

\* The existence test of line 146 without its `not`.
NeedsDataGenerationInverted(c, fs, seq_length, task) ==
    \/ IsNone(PregenTaskDataFile(c, seq_length, task))
    \/ Value(PregenTaskDataFile(c, seq_length, task)) \in fs

\* Line 146.
NeedsDataGeneration(c, fs, seq_length, task) ==
    \/ IsNone(PregenTaskDataFile(c, seq_length, task))
    \/ Value(PregenTaskDataFile(c, seq_length, task)) \notin fs

\* Line 156.
GeneratedTaskDataFile(c, seq_length, task) ==
    PathJoin(DataDir(c, seq_length), TaskFileName(seq_length, task))

\* Lines 147-154.
DataGenCmd(c, seq_length, task) ==
       <<"python", " ", "babilong/prepare_data.py", " ">>
    \o <<"--download_dir", " ", PathJoin(PathJoin(BASE_DIR, "dataset"), "babilong"), " ">>
    \o <<"--output_dir", " ", DataDir(c, seq_length), " ">>
    \o <<"--tasks", " ", task, " ">>
    \o <<"--split_names", " ", SeqLengthRepr(seq_length), " ">>
    \o <<"--model_template_type", " ", c.prompt_config, " ">>

\* Lines 159-169.  No blank ends the --output_path fragment.
TaskGenCmd(c, executor, seq_length, task, data_file) ==
       executor \o <<" ", "run_star_attn_inference.py", " ">>
    \o <<"--model_path", " ", c.model_path, " ">>
    \o <<"--attn_type", " ", c.attn_type, " ">>
    \o <<"--block_size", " ", ToString(c.block_size), " ">>
    \o <<"--anchor_block_size", " ", ToString(c.anchor_block_size), " ">>
    \o <<"--tokens_to_generate", " ", "128", " ">>
    \o <<"--input_path", " ", data_file, " ">>
    \o <<"--output_path", " ", PathJoin(ResultsDir(c, seq_length), task), ".jsonl">>
    \o <<"--stop_words", " ", c.stop_words>>

\* A write that is still buffered when the job starts: the file is created
\* and holds nothing yet.
WriteFileUnflushed(fs, path, content) ==
    {f \in fs : f[1] # path} \cup {<<path, <<>>>>}

\* open(path, 'w'); f.write(cmd): the file holds exactly cmd afterwards.
WriteFile(fs, path, content) ==
    {f \in fs : f[1] # path} \cup {<<path, content>>}

ReadFile(fs, path) == {f[2] : f \in {g \in fs : g[1] = path}}

\* The shell that os.system starts splits the command line at blanks:
\* adjacent pieces that no blank separates form one argument.
RECURSIVE SplitWords(_, _, _)
SplitWords(cmd, k, cur) ==
    IF k > Len(cmd) THEN (IF cur = "" THEN <<>> ELSE <<cur>>)
    ELSE IF cmd[k] = " "
         THEN (IF cur = "" THEN <<>> ELSE <<cur>>) \o SplitWords(cmd, k + 1, "")
         ELSE SplitWords(cmd, k + 1, cur \o cmd[k])

ShellWords(cmd) == SplitWords(cmd, 1, "")

(***************************************************************************)
(* The orchestrator as a state machine.  os.system blocks: the loop        *)
(* resumes only when the child process has exited.                         *)
(***************************************************************************)
AttnTypes == {"star", "ring", "dense"}
BlockSizes == {-1, 0, 4096, 8193, 16385}
AnchorBlockSizes == {-1, 8192}
SeqLengthChoices == {8192, 16384, 16500}
TASKS == {"qa1", "qa2"}
ModelPath == "model_path"
PregenFile ==
    PathJoin(PathJoin(PathJoin(PathJoin(BASE_DIR, "dataset"), "pregen"), "16k"),
             "qa1_16k.jsonl")

\* The default of --output_dir (line 70).
DefaultOutputDir == PathJoin(BASE_DIR, "results")

\* --nproc_per_node, --num_nodes and whether the model path exists: a sound
\* start-up, and each single defect the validation looks for.  A dense run
\* leaves the two counts at their defaults.
SoundStartup(attn_type) ==
    [nproc_per_node |-> IF attn_type = "dense" THEN <<>> ELSE <<2>>,
     num_nodes |-> 1, model |-> {ModelPath}]

StartupChoices(attn_type) ==
    {SoundStartup(attn_type), [SoundStartup(attn_type) EXCEPT !.model = {}]}
    \cup (IF attn_type = "dense" THEN {}
          ELSE { [SoundStartup(attn_type) EXCEPT !.nproc_per_node = <<>>],
                 [SoundStartup(attn_type) EXCEPT !.nproc_per_node = <<0>>],
                 [SoundStartup(attn_type) EXCEPT !.num_nodes = 0] })

\* --pregen_data_dir and the pre-generated files on disk.
PregenChoices ==
    { [dir |-> <<>>, on_disk |-> {}],
      [dir |-> <<"pregen">>, on_disk |-> {}],
      [dir |-> <<"pregen">>, on_disk |-> {PregenFile}] }

\* The block sizes tried with each attention type: only star attention reads
\* the anchor block size, dense attention reads neither.
BlockSizeChoices(attn_type) ==
    IF attn_type = "dense" THEN {-1}
    ELSE IF IsStar(attn_type) THEN BlockSizes
    ELSE {-1, 0, 4096}

AnchorBlockSizeChoices(attn_type) ==
    IF IsStar(attn_type) THEN AnchorBlockSizes ELSE {-1}

Lists(S, n) == UNION {[1..k -> S] : k \in 1..n}

\* define_cmd_arguments (lines 28-74): the parsed command line.  A start-up
\* with a defect is tried with one task list and no pre-generated directory:
\* the validation reads neither.
OrchInit ==
    /\ \E attn_type \in AttnTypes :
       \E st \in StartupChoices(attn_type), pg \in PregenChoices :
        /\ cfg \in [model_name : {"model"}, model_path : {ModelPath},
                    prompt_config : {"prompt_config"}, stop_words : {"stop_words"},
                    attn_type : {attn_type},
                    block_size : BlockSizeChoices(attn_type),
                    anchor_block_size : AnchorBlockSizeChoices(attn_type),
                    seq_lengths : Lists(SeqLengthChoices, MaxSeqLengths),
                    tasks : Lists(TASKS, MaxTasks),
                    pregen_data_dir : {pg.dir},
                    num_nodes : {st.num_nodes},
                    nproc_per_node : {st.nproc_per_node},
                    output_dir : {DefaultOutputDir}]
        /\ exists = st.model \cup pg.on_disk
        /\ st # SoundStartup(attn_type) => (cfg.tasks = <<"qa1">> /\ pg.dir = <<>>)
    /\ orch_pc = "start"
    /\ seq_i = 0 /\ task_j = 0
    /\ inference_executor = <<>>
    /\ nproc_per_node_seq_len = 0
    /\ task_data_file = ""
    /\ call = <<>>
    /\ files = {}
    /\ running = <<>>
    /\ dispatched = <<>>
    /\ pass = 1
    /\ first_pass = <<>>
    /\ GenIdle

\* __main__, lines 173-203: validate, then name the output directory.
Validate ==
    /\ orch_pc = "start"
    /\ IF StartupValid(cfg, exists)
       THEN /\ cfg' = [cfg EXCEPT !.output_dir = OutputDir(cfg)]
            /\ orch_pc' = "main"
       ELSE /\ orch_pc' = "aborted"
            /\ UNCHANGED cfg
    /\ UNCHANGED <<exists, seq_i, task_j, inference_executor, nproc_per_node_seq_len,
                   task_data_file, call, files, running, dispatched>>
    /\ UNCHANGED <<pass, first_pass>>
    /\ UNCHANGED gen_vars

\* main, lines 100-113: the ordering assertion, then the first sequence length.
MainEntry ==
    /\ orch_pc = "main"
    /\ IF MainAssertion(cfg)
       THEN /\ orch_pc' = "for_seq"
            /\ seq_i' = 1
       ELSE /\ orch_pc' = "aborted"
            /\ UNCHANGED seq_i
    /\ UNCHANGED <<cfg, exists, task_j, inference_executor, nproc_per_node_seq_len,
                   task_data_file, call, files, running, dispatched>>
    /\ UNCHANGED <<pass, first_pass>>
    /\ UNCHANGED gen_vars

\* Lines 113-121: the sequence length is skipped.
SeqSkip ==
    /\ orch_pc = "for_seq"
    /\ seq_i <= Len(cfg.seq_lengths)
    /\ SkipSeqLength(cfg, cfg.seq_lengths[seq_i])
    /\ seq_i' = seq_i + 1
    /\ UNCHANGED <<cfg, exists, orch_pc, task_j, inference_executor,
                   nproc_per_node_seq_len, task_data_file, call, files, running,
                   dispatched>>
    /\ UNCHANGED <<pass, first_pass>>
    /\ UNCHANGED gen_vars

\* Lines 113-137: the executor and the directories of one sequence length.
SeqEnter ==
    /\ orch_pc = "for_seq"
    /\ seq_i <= Len(cfg.seq_lengths)
    /\ ~SkipSeqLength(cfg, cfg.seq_lengths[seq_i])
    /\ cfg.attn_type # "dense" => cfg.block_size # 0
    /\ nproc_per_node_seq_len' =
           IF cfg.attn_type # "dense"
           THEN NprocPerNodeSeqLen(cfg, cfg.seq_lengths[seq_i])
           ELSE nproc_per_node_seq_len
    /\ inference_executor' = InferenceExecutor(cfg, nproc_per_node_seq_len')
    /\ task_j' = 1
    /\ orch_pc' = "for_task"
    /\ UNCHANGED <<cfg, exists, seq_i, task_data_file, call, files, running,
                   dispatched>>
    /\ UNCHANGED <<pass, first_pass>>
    /\ UNCHANGED gen_vars

\* Line 125 with block_size = 0: ZeroDivisionError ends the run.
SeqDivisionByZero ==
    /\ orch_pc = "for_seq"
    /\ seq_i <= Len(cfg.seq_lengths)
    /\ ~SkipSeqLength(cfg, cfg.seq_lengths[seq_i])
    /\ cfg.attn_type # "dense" /\ cfg.block_size = 0
    /\ orch_pc' = "crashed"
    /\ UNCHANGED <<cfg, exists, seq_i, task_j, inference_executor,
                   nproc_per_node_seq_len, task_data_file, call, files, running,
                   dispatched>>
    /\ UNCHANGED <<pass, first_pass>>
    /\ UNCHANGED gen_vars

\* The for loop of line 113 is exhausted: main returns.
MainReturn ==
    /\ orch_pc = "for_seq"
    /\ seq_i > Len(cfg.seq_lengths)
    /\ orch_pc' = "done"
    /\ UNCHANGED <<cfg, exists, seq_i, task_j, inference_executor,
                   nproc_per_node_seq_len, task_data_file, call, files, running,
                   dispatched>>
    /\ UNCHANGED <<pass, first_pass>>
    /\ UNCHANGED gen_vars

\* The for loop of line 137 is exhausted: next sequence length.
TasksDone ==
    /\ orch_pc = "for_task"
    /\ task_j > Len(cfg.tasks)
    /\ seq_i' = seq_i + 1
    /\ orch_pc' = "for_seq"
    /\ UNCHANGED <<cfg, exists, task_j, inference_executor, nproc_per_node_seq_len,
                   task_data_file, call, files, running, dispatched>>
    /\ UNCHANGED <<pass, first_pass>>
    /\ UNCHANGED gen_vars

\* Lines 137-155: resolve the task's data file; call submit_job for the
\* data generation when there is no pre-generated file.
TaskResolve ==
    /\ orch_pc = "for_task"
    /\ task_j <= Len(cfg.tasks)
    /\ LET seq_length == cfg.seq_lengths[seq_i]
           task == cfg.tasks[task_j]
       IN  IF NeedsDataGeneration(cfg, exists, seq_length, task)
           THEN /\ call' = <<[cmd |-> DataGenCmd(cfg, seq_length, task),
                              log_dir |-> TaskLogDir(cfg, seq_length, task),
                              filename |-> "data_generation.sh"]>>
                /\ task_data_file' =
                       IF IsNone(PregenTaskDataFile(cfg, seq_length, task)) THEN ""
                       ELSE Value(PregenTaskDataFile(cfg, seq_length, task))
                /\ orch_pc' = "submit_save"
           ELSE /\ task_data_file' = Value(PregenTaskDataFile(cfg, seq_length, task))
                /\ orch_pc' = "infer"
                /\ UNCHANGED call
    /\ UNCHANGED <<cfg, exists, seq_i, task_j, inference_executor,
                   nproc_per_node_seq_len, files, running, dispatched>>
    /\ UNCHANGED <<pass, first_pass>>
    /\ UNCHANGED gen_vars

\* Lines 158-170: build the inference command and call submit_job.
TaskInference ==
    /\ orch_pc = "infer"
    /\ call' = <<[cmd |-> TaskGenCmd(cfg, inference_executor, cfg.seq_lengths[seq_i],
                                     cfg.tasks[task_j], task_data_file),
                  log_dir |-> TaskLogDir(cfg, cfg.seq_lengths[seq_i], cfg.tasks[task_j]),
                  filename |-> "generate_predictions.sh"]>>
    /\ orch_pc' = "submit_save"
    /\ UNCHANGED <<cfg, exists, seq_i, task_j, inference_executor,
                   nproc_per_node_seq_len, task_data_file, files, running,
                   dispatched>>
    /\ UNCHANGED <<pass, first_pass>>
    /\ UNCHANGED gen_vars

\* submit_job, lines 79-81: the command is saved and the file closed.
SaveCommand ==
    /\ orch_pc = "submit_save"
    /\ files' = WriteFile(files, PathJoin(call[1].log_dir, call[1].filename), call[1].cmd)
    /\ orch_pc' = "submit_system"
    /\ UNCHANGED <<cfg, exists, seq_i, task_j, inference_executor,
                   nproc_per_node_seq_len, task_data_file, call, running,
                   dispatched>>
    /\ UNCHANGED <<pass, first_pass>>
    /\ UNCHANGED gen_vars

\* What os.system starts, with the sweep point it belongs to.
Job(c) ==
    [cmd |-> c.cmd,
     record |-> PathJoin(c.log_dir, c.filename),
     kind |-> c.filename,
     seq_length |-> cfg.seq_lengths[seq_i],
     task |-> cfg.tasks[task_j],
     point |-> <<seq_i, task_j>>,
     nproc |-> nproc_per_node_seq_len]

\* The child process of a job: it runs until it exits with a code.
Process(j) ==
    [cmd |-> j.cmd, record |-> j.record, kind |-> j.kind, seq_length |-> j.seq_length,
     task |-> j.task, point |-> j.point, nproc |-> j.nproc, exit |-> <<>>]

\* os.system as a call that does not wait: the child is started and the
\* caller goes on at once.
SystemStartDetached ==
    /\ orch_pc = "submit_system"
    /\ running' = <<Process(Job(call[1]))>>
    /\ dispatched' = Append(dispatched, Job(call[1]))
    /\ call' = <<>>
    /\ IF call[1].filename = "data_generation.sh"
       THEN /\ task_data_file' = GeneratedTaskDataFile(cfg, cfg.seq_lengths[seq_i],
                                                       cfg.tasks[task_j])
            /\ orch_pc' = "infer"
            /\ UNCHANGED task_j
       ELSE /\ task_j' = task_j + 1
            /\ orch_pc' = "for_task"
            /\ UNCHANGED task_data_file
    /\ UNCHANGED <<cfg, exists, seq_i, inference_executor, nproc_per_node_seq_len,
                   files>>
    /\ UNCHANGED <<pass, first_pass>>
    /\ UNCHANGED gen_vars

\* submit_job, line 84: os.system starts the child and waits for it.
SystemStart ==
    /\ orch_pc = "submit_system"
    /\ running' = <<Process(Job(call[1]))>>
    /\ dispatched' = Append(dispatched, Job(call[1]))
    /\ orch_pc' = "submit_wait"
    /\ UNCHANGED <<cfg, exists, seq_i, task_j, inference_executor,
                   nproc_per_node_seq_len, task_data_file, call, files>>
    /\ UNCHANGED <<pass, first_pass>>
    /\ UNCHANGED gen_vars

ExitCodes == {0, 1}

\* The child process ends, with some exit code.  Nothing makes it end.
ChildExit ==
    /\ orch_pc = "submit_wait"
    /\ running # <<>>
    /\ running[1].exit = <<>>
    /\ \E code \in ExitCodes : running' = <<[running[1] EXCEPT !.exit = <<code>>]>>
    /\ UNCHANGED <<cfg, exists, orch_pc, seq_i, task_j, inference_executor,
                   nproc_per_node_seq_len, task_data_file, call, files, dispatched>>
    /\ UNCHANGED <<pass, first_pass>>
    /\ UNCHANGED gen_vars

\* os.system returns from the data generation (its value is dropped) and
\* line 156 names the file the child was to write.
DataGenReturns ==
    /\ orch_pc = "submit_wait"
    /\ running # <<>> /\ running[1].exit # <<>>
    /\ call[1].filename = "data_generation.sh"
    /\ running' = <<>>
    /\ call' = <<>>
    /\ task_data_file' = GeneratedTaskDataFile(cfg, cfg.seq_lengths[seq_i], cfg.tasks[task_j])
    /\ orch_pc' = "infer"
    /\ UNCHANGED <<cfg, exists, seq_i, task_j, inference_executor,
                   nproc_per_node_seq_len, files, dispatched>>
    /\ UNCHANGED <<pass, first_pass>>
    /\ UNCHANGED gen_vars

\* The return from the inference with the exit status looked at: a failed
\* job is submitted again.
InferenceReturnsRetrying ==
    /\ orch_pc = "submit_wait"
    /\ running # <<>> /\ running[1].exit # <<>>
    /\ call[1].filename = "generate_predictions.sh"
    /\ running' = <<>>
    /\ call' = <<>>
    /\ IF running[1].exit = <<0>>
       THEN task_j' = task_j + 1 /\ orch_pc' = "for_task"
       ELSE task_j' = task_j /\ orch_pc' = "infer"
    /\ UNCHANGED <<cfg, exists, seq_i, inference_executor, nproc_per_node_seq_len,
                   task_data_file, files, dispatched>>
    /\ UNCHANGED <<pass, first_pass>>
    /\ UNCHANGED gen_vars

\* os.system returns from the inference (its value is dropped): next task.
InferenceReturns ==
    /\ orch_pc = "submit_wait"
    /\ running # <<>> /\ running[1].exit # <<>>
    /\ call[1].filename = "generate_predictions.sh"
    /\ running' = <<>>
    /\ call' = <<>>
    /\ task_j' = task_j + 1
    /\ orch_pc' = "for_task"
    /\ UNCHANGED <<cfg, exists, seq_i, inference_executor, nproc_per_node_seq_len,
                   task_data_file, files, dispatched>>
    /\ UNCHANGED <<pass, first_pass>>
    /\ UNCHANGED gen_vars

OrchStep ==
    \/ Validate
    \/ MainEntry
    \/ SeqSkip
    \/ SeqEnter
    \/ SeqDivisionByZero
    \/ MainReturn
    \/ TasksDone
    \/ TaskResolve
    \/ TaskInference
    \/ SaveCommand
    \/ SystemStart
    \/ DataGenReturns
    \/ InferenceReturns

OrchNext == OrchStep \/ ChildExit

OrchSpec == OrchInit /\ [][OrchNext]_vars

\* The interpreter always takes its next step; a child process may never exit.
OrchFairSpec == OrchSpec /\ WF_vars(OrchStep)

\* The file the data-generation job j is to write (line 156 names it), once
\* the output directory of the run is set.
DataGenOutput(j) == GeneratedTaskDataFile(cfg, j.seq_length, j.task)

\* The files the data-generation jobs of this pass were to write.
DataGenOutputs ==
    {DataGenOutput(dispatched[k]) :
        k \in {i \in 1..Len(dispatched) : dispatched[i].kind = "data_generation.sh"}}

\* The program is run a second time with the same command line, after the
\* first pass has returned.  The command files of the first pass are on
\* disk, and so are the data files its data-generation jobs produced (those
\* of the jobs that succeeded).
SecondPass ==
    /\ orch_pc = "done"
    /\ pass = 1
    /\ pass' = 2
    /\ first_pass' = <<dispatched>>
    /\ \E produced \in SUBSET DataGenOutputs : exists' = exists \cup produced
    /\ cfg' = [cfg EXCEPT !.output_dir = DefaultOutputDir]
    /\ orch_pc' = "start"
    /\ seq_i' = 0 /\ task_j' = 0
    /\ inference_executor' = <<>>
    /\ nproc_per_node_seq_len' = 0
    /\ task_data_file' = ""
    /\ dispatched' = <<>>
    /\ UNCHANGED <<call, files, running>>
    /\ UNCHANGED gen_vars

TwoPassesNext == OrchNext \/ SecondPass

TwoPassesSpec == OrchInit /\ [][TwoPassesNext]_vars

(***************************************************************************)
(* Claims about run_babilong.py (checked under OrchSpec / OrchFairSpec).   *)
(***************************************************************************)
Orchestrating == orch_pc # "idle"

Terminated == orch_pc \in {"done", "aborted", "crashed"}

\* Control points inside the body of the sequence-length loop (lines 123-170).
InSeqBody == orch_pc \in {"for_task", "infer", "submit_save", "submit_system", "submit_wait"}

Jobs == {dispatched[k] : k \in 1..Len(dispatched)}

InferenceJobs == {j \in Jobs : j.kind = "generate_predictions.sh"}

DataGenJobs == {j \in Jobs : j.kind = "data_generation.sh"}

\* The piece that follows `flag` and a blank in a command line.
ArgAfter(cmd, flag) == {cmd[k + 2] : k \in {i \in 1..(Len(cmd) - 2) : cmd[i] = flag}}

\* The piece glued to `flag` (--name=value).
ArgGlued(cmd, flag) == {cmd[k + 1] : k \in {i \in 1..(Len(cmd) - 1) : cmd[i] = flag}}

\* C3: every inference job of a non-dense run is launched with
\* min(nproc_per_node, seq_length // block_size) processes, which is at most
\* the requested ceiling and at least 1.
C3_ProcessCount ==
    (Orchestrating /\ cfg.attn_type # "dense") =>
        \A j \in InferenceJobs :
            /\ ArgGlued(j.cmd, "--nproc_per_node=") = {ToString(j.nproc)}
            /\ j.nproc = Min(Value(cfg.nproc_per_node),
                             FloorDiv(j.seq_length, cfg.block_size))
            /\ j.nproc <= Value(cfg.nproc_per_node)
            /\ j.nproc >= 1

\* The conditions C4 lists.
UnsupportedSeqLength(c) ==
    \E k \in 1..Len(c.seq_lengths) : SeqLengthRepr(c.seq_lengths[k]) \notin SPLIT_NAMES

StartupDefect(c, fs) ==
    \/ UnsupportedSeqLength(c)
    \/ (IsStar(c.attn_type) /\ c.block_size <= 0)
    \/ (c.attn_type # "dense" /\ (IsNone(c.nproc_per_node) \/ c.nproc_per_node[1] <= 0))
    \/ (c.attn_type # "dense" /\ c.num_nodes <= 0)
    \/ ModelPath \notin fs

OrderingDefect(c) == IsStar(c.attn_type) /\ c.anchor_block_size > c.block_size

\* The part of C4 that holds, with "unsupported" read as line 179 reads it:
\* with any of the listed defects the run never gets past its validation; it
\* can only abort, and it has then written no command file and started no job.
C4_FailFast ==
    Orchestrating =>
        /\ StartupDefect(cfg, exists) => orch_pc \in {"start", "aborted"}
        /\ (StartupDefect(cfg, exists) \/ OrderingDefect(cfg)) =>
               /\ orch_pc \in {"start", "main", "aborted"}
               /\ files = {} /\ dispatched = <<>> /\ running = <<>>

\* The scenario of the claim: 16384 / 4096 / 8192 under star attention.
C4_Witness ==
    /\ orch_pc = "aborted"
    /\ cfg.attn_type = "star" /\ cfg.block_size = 4096 /\ cfg.anchor_block_size = 8192
    /\ cfg.seq_lengths = <<16384>>
    /\ ~StartupDefect(cfg, exists)

\* C5: in a star sweep no job belongs to a sequence length with
\* block_size + anchor_block_size > seq_length: the loop body (the only place
\* that writes a command file or starts a job) is never entered for it, every
\* job started has block_size + anchor_block_size <= its sequence length, and
\* a sweep whose sequence lengths are all skipped writes and starts nothing.
C5_SkippedNeverDispatched ==
    (Orchestrating /\ IsStar(cfg.attn_type)) =>
        /\ InSeqBody =>
               cfg.block_size + cfg.anchor_block_size <= cfg.seq_lengths[seq_i]
        /\ \A j \in Jobs : cfg.block_size + cfg.anchor_block_size <= j.seq_length
        /\ (\A k \in 1..Len(cfg.seq_lengths) :
                cfg.block_size + cfg.anchor_block_size > cfg.seq_lengths[k])
           => (files = {} /\ dispatched = <<>>)

\* A finished star sweep that skipped 16384 and ran 16500.
C5_Witness ==
    /\ orch_pc = "done"
    /\ IsStar(cfg.attn_type)
    /\ \E k \in 1..Len(cfg.seq_lengths) :
           cfg.block_size + cfg.anchor_block_size > cfg.seq_lengths[k]
    /\ dispatched # <<>>

\* C6: record before dispatch: while a job runs, the file of its command
\* holds exactly that command; and the file of every job ever started is
\* still there, whatever the job returned.
C6_RecordBeforeDispatch ==
    Orchestrating =>
        /\ running # <<>> => ReadFile(files, running[1].record) = {running[1].cmd}
        /\ \A j \in Jobs : ReadFile(files, j.record) # {}

\* A job has failed and the file of its command is in place.
C6_Witness ==
    /\ running # <<>>
    /\ running[1].exit = <<1>>
    /\ ReadFile(files, running[1].record) = {running[1].cmd}

\* Every sweep point that is not skipped has had its inference job started.
AllPointsDispatched ==
    \A i \in 1..Len(cfg.seq_lengths), t \in 1..Len(cfg.tasks) :
        ~SkipSeqLength(cfg, cfg.seq_lengths[i]) =>
            \E j \in InferenceJobs : j.point = <<i, t>>

SweepOver == orch_pc \in {"aborted", "crashed"} \/ AllPointsDispatched

InputPath(j) == ArgAfter(j.cmd, "--input_path")

\* The data-generation jobs started for the sweep point of job j.
DataGenFor(j) == {d \in DataGenJobs : d.point = j.point}

\* Position of a job in the dispatch order.
DispatchIndex(j) == CHOOSE k \in 1..Len(dispatched) : dispatched[k] = j

\* C8: cache-or-build: an inference job whose pre-generated file is
\* configured and on disk has no data-generation job and reads that file;
\* any other inference job is preceded, directly, by exactly one
\* data-generation job of its task and sequence length whose command file is
\* written, and reads the file that job is to produce in the run's data
\* directory.
C8_CacheOrBuild ==
    Orchestrating =>
        \A j \in InferenceJobs :
            LET pre == PregenTaskDataFile(cfg, j.seq_length, j.task)
            IN  IF ~IsNone(pre) /\ Value(pre) \in exists
                THEN /\ DataGenFor(j) = {}
                     /\ InputPath(j) = {Value(pre)}
                ELSE /\ Cardinality(DataGenFor(j)) = 1
                     /\ \A d \in DataGenFor(j) :
                            /\ DispatchIndex(d) + 1 = DispatchIndex(j)
                            /\ ArgAfter(d.cmd, "--tasks") = {j.task}
                            /\ ArgAfter(d.cmd, "--split_names") = {SeqLengthRepr(j.seq_length)}
                            /\ ReadFile(files, d.record) = {d.cmd}
                            /\ \A o \in ArgAfter(d.cmd, "--output_dir") :
                                   InputPath(j) = {PathJoin(o, TaskFileName(j.seq_length, j.task))}
                     /\ InputPath(j) = {PathJoin(DataDir(cfg, j.seq_length),
                                                 TaskFileName(j.seq_length, j.task))}

\* A finished sweep with one task served from the pre-generated directory
\* and another one built.
C8_Witness ==
    /\ orch_pc = "done"
    /\ \E j \in InferenceJobs : DataGenFor(j) = {} /\ InputPath(j) = {PregenFile}
    /\ \E j \in InferenceJobs : DataGenFor(j) # {}

\* The sizes C13 names: 16k, 32k, 64k and 128k tokens.
SupportedSeqLengths == {16 * PathStep, 32 * PathStep, 64 * PathStep, 128 * PathStep}

\* C13: a run gets past the start-up validation only if every requested
\* sequence length is one of 16384, 32768, 65536, 131072.
C13_OnlySupportedLengths ==
    (Orchestrating /\ orch_pc \notin {"start", "aborted"}) =>
        \A k \in 1..Len(cfg.seq_lengths) : cfg.seq_lengths[k] \in SupportedSeqLengths

\* C4: fail-fast validation: when a requested sequence length is not one of
\* the supported sizes, or any other listed defect is present, the run only
\* aborts: it writes no command file and starts no job.
C4_FailFastSupportedSet ==
    Orchestrating =>
        ((\/ \E k \in 1..Len(cfg.seq_lengths) : cfg.seq_lengths[k] \notin SupportedSeqLengths
          \/ StartupDefect(cfg, exists)
          \/ OrderingDefect(cfg))
         => /\ orch_pc \in {"start", "main", "aborted"}
            /\ files = {} /\ dispatched = <<>> /\ running = <<>>)

\* The uncommon-word frequency of the regime of the run.
UncommonFrequency ==
    IF args.max_seq_length < RegimeThreshold THEN SmallUncommonRepeats ELSE args.freq_ucw

\* The words of a record's outputs.
OutputWords(rec) == {rec.outputs[k] : k \in 1..Len(rec.outputs)}

\* The word list of the record is shaped by the regime of max_seq_length.
RegimeShaped(rec) ==
    \A k \in 1..Len(rec.input_context.body) :
        LET w == rec.input_context.body[k][2]
        IN  Occurrences(rec.input_context.body, w)
                = IF w \in OutputWords(rec) THEN CommonFrequency ELSE UncommonFrequency

\* C14: every record is built with the frequencies of its regime (the
\* caller's freq_cw and freq_ucw from 4096 on, the fixed 6 and 1 below) and
\* has exactly num_cw outputs.
C14_RegimeAndAnswerSize ==
    gen_pc # "idle" =>
        \A i \in 1..Len(write_jsons) :
            /\ RegimeShaped(write_jsons[i])
            /\ Len(write_jsons[i].outputs) = args.num_cw

\* The step is an over-budget attempt: the retry loop goes round again.
OverBudgetAttempt == gen_pc = "attempt" /\ gen_pc' = "attempt"

\* C15: shape of the shrink loop: every over-budget attempt is followed by an
\* attempt with exactly `incremental` items fewer, and no attempt is made
\* with fewer items than one increment.
C15_ShrinkShape ==
    /\ [][OverBudgetAttempt => used_words' = used_words - incremental]_vars
    /\ [](gen_pc = "attempt" => used_words >= incremental)

\* What generate_input_output returns to the attempt made in the current state.
Attempt == generate_input_output(used_words, args, rng)

\* C16 as stated: a sample is accepted only if context + query + rendered
\* answer, plus tokens_to_generate, is within max_seq_length.
C16_SampleTestMeasuresAnswer ==
    [][RecordAppended =>
         PromptAnswerTokens(TOKENIZER, Attempt.context, Attempt.query, Attempt.answer)
             + args.tokens_to_generate <= args.max_seq_length]_vars

\* C16 as amended: the per-sample test measures context + query, without the
\* answer that calibration adds: a sample is accepted exactly when that
\* length plus tokens_to_generate is within max_seq_length, and this sum is
\* the record's length; otherwise the loop goes round again.
C16_SampleTestMeasuresPrompt ==
    [][LET measured == ContextTokens(TOKENIZER, Attempt.context) + Attempt.query.tok
                       + args.tokens_to_generate
       IN  /\ RecordAppended =>
                 (measured <= args.max_seq_length /\ NewRecord.length = measured)
           /\ OverBudgetAttempt => measured > args.max_seq_length]_vars

\* A record was accepted whose context + query + answer does not fit.
C16_Witness ==
    /\ gen_pc = "samples"
    /\ ~args.remove_newline_tab
    /\ \E i \in 1..Len(write_jsons) :
           /\ write_jsons[i].length <= args.max_seq_length
           /\ PromptAnswerTokens(TOKENIZER, write_jsons[i].input_context,
                                 write_jsons[i].input_query, write_jsons[i].outputs)
                  + args.tokens_to_generate > args.max_seq_length

\* What C17 keys a job's record by.
RecordKey(j) == <<j.seq_length, j.task, j.kind>>

\* At the end of the pass the file of every job started holds the command the
\* job was started with.
RecordsIntact ==
    orch_pc = "done" => \A j \in Jobs : ReadFile(files, j.record) = {j.cmd}

\* C17: audit trail: jobs of different (sequence length, task, kind) are
\* recorded in different files, and at the end of the pass the file of every
\* job started holds exactly the command that job was started with.
C17_AuditTrail ==
    Orchestrating =>
        /\ \A j1 \in Jobs, j2 \in Jobs :
               RecordKey(j1) # RecordKey(j2) => j1.record # j2.record
        /\ RecordsIntact

\* C18: idempotent cache-or-build: the second pass starts no data-generation
\* job whose output file is on disk.
C18_SecondPassReusesData ==
    pass = 2 => \A d \in DataGenJobs : DataGenOutput(d) \notin exists

\* The sweep points in the order of the two loops: <<position in
\* --seq_lengths, position in --tasks>>.
SweepPoints ==
    [k \in 1..(Len(cfg.seq_lengths) * Len(cfg.tasks)) |->
        <<((k - 1) \div Len(cfg.tasks)) + 1, ((k - 1) % Len(cfg.tasks)) + 1>>]

\* The points whose sequence length is not skipped, in that order.
DispatchPlan ==
    SelectSeq(SweepPoints, LAMBDA p : ~SkipSeqLength(cfg, cfg.seq_lengths[p[1]]))

\* The points of the inference jobs started, in the order they were started.
InferencePoints ==
    LET inf == SelectSeq(dispatched, LAMBDA j : j.kind = "generate_predictions.sh")
    IN  [k \in 1..Len(inf) |-> inf[k].point]

\* How many jobs of a kind were started for a sweep point.
Started(p, kind) ==
    Cardinality({k \in 1..Len(dispatched) :
                    dispatched[k].point = p /\ dispatched[k].kind = kind})

\* C19: the dispatch plan does not depend on what the jobs return: the
\* inference jobs started are, in order, an initial part of the plan (every
\* point whose sequence length is not skipped, sequence lengths then tasks),
\* no job is started twice for a point, every inference job is for the
\* length and task of its point, and a pass that returns has started the
\* whole plan.
C19_PlanIndependentOfOutcomes ==
    Orchestrating =>
        /\ IsPrefix(InferencePoints, DispatchPlan)
        /\ \A k \in 1..Len(dispatched) :
               /\ Started(dispatched[k].point, dispatched[k].kind) = 1
               /\ dispatched[k].seq_length = cfg.seq_lengths[dispatched[k].point[1]]
               /\ dispatched[k].task = cfg.tasks[dispatched[k].point[2]]
        /\ orch_pc = "done" => InferencePoints = DispatchPlan

\* A data-generation job has failed after the jobs of earlier points, in a
\* sweep of four points; the pass goes on from here.
C19_Witness ==
    /\ running # <<>>
    /\ running[1].kind = "data_generation.sh"
    /\ running[1].exit = <<1>>
    /\ Len(InferencePoints) >= 1
    /\ Len(DispatchPlan) = 4

\* The arguments that follow the argument `flag` in a split command line.
ValueOf(w, flag) == {w[k + 1] : k \in {i \in 1..(Len(w) - 1) : w[i] = flag}}

\* C20: in every inference command, split at blanks, --output_path is
\* followed by <results_dir>/<task>.jsonl and --stop_words is an argument of
\* its own, followed by the stop-word list.
C20_OutputPathAndStopWords ==
    Orchestrating =>
        \A j \in InferenceJobs :
            LET w == ShellWords(j.cmd)
            IN  /\ ValueOf(w, "--output_path")
                       = {PathJoin(ResultsDir(cfg, j.seq_length), j.task) \o ".jsonl"}
                /\ ValueOf(w, "--stop_words") = {cfg.stop_words}

====
